---- MODULE Spec2Model ----
(***************************************************************************)
(* The App component of src/App.js as a state machine: model loading       *)
(* (cv.onRuntimeInitialized), camera mode, the requestAnimationFrame       *)
(* detection loop (startDetection / detectLoop / processFrame /            *)
(* stopDetection), the detectWithCounts wrapper around detectImage, and    *)
(* the uploaded-image path.  React state read inside a callback is the     *)
(* value captured by the closure of the render that created the callback;  *)
(* refs are read at call time.                                             *)
(***************************************************************************)
EXTENDS Integers, Sequences, FiniteSets, TLC

\* ---------------------------------------------------------------- bounds
MaxHandles == 2      \* requestAnimationFrame handles handed out in one run
MaxFrames  == 2      \* pipeline executions dispatched in one run
MaxTimers  == 2      \* 500 ms start timers pending at once
MaxCountDets == 3    \* detections in an array given to detectWithCounts on its own

\* ------------------------------------------------------- program constants
\* App.js "Configs"; thresholds in hundredths (0.45 -> 45, 0.25 -> 25).
modelInputShape == <<1, 3, 640, 640>>
topk == 300
iouThreshold == 45
scoreThreshold == 25

\* README "Configuration": the documented defaults, in hundredths.
README_modelInputShape == <<1, 3, 640, 640>>
README_topk == 300
README_iouThreshold == 40
README_scoreThreshold == 20

\* detection.class values detectImage may attach; "" is a missing class.
DetClasses == {"Oyster", ""}

\* The same, for detectWithCounts applied on its own to longer arrays.
CountDetClasses == {"Oyster", "Algae", ""}

VARIABLES
  initPc,                 \* position of cv.onRuntimeInitialized
  session,                \* useState(null): [set, net, nms]
  cameraMode,             \* useState(false)
  facingMode,             \* useState("environment")
  image,                  \* useState(null): TRUE when an object URL is set
  isDetecting,            \* useState(false)
  detectionCounts,        \* useState({}): class name -> count
  detectionIntervalRef,   \* useRef(null): 0 is null, else a rAF handle
  streamPending,          \* the Webcam has asked for a stream, not yet ready
  camReady,               \* the Webcam holds a stream (getScreenshot can draw)
  pendingRaf,             \* scheduled animation-frame callbacks [h, sess]
  nextHandle,             \* next handle requestAnimationFrame returns
  timers,                 \* pending setTimeout(() => startDetection(), 500)
  executions,             \* pipeline executions in flight
  nextFrame,              \* number of the next captured frame
  imgLoadPending,         \* imageRef.src was set, its load event is due
  lastAct,                \* the handler that ran last, and what it did
  newestApplied,          \* highest frame whose run has set the counts (0: none)
  harness                 \* a function applied on its own: its inputs and result

appVars == <<initPc, session, cameraMode, facingMode, image, isDetecting,
             detectionCounts, detectionIntervalRef, streamPending, camReady,
             pendingRaf, nextHandle, timers, executions, nextFrame,
             imgLoadPending, lastAct, newestApplied>>

vars == <<appVars, harness>>

\* ------------------------------------------------------------- helpers
NoSession == [set |-> FALSE, net |-> FALSE, nms |-> FALSE]
LoadedSession == [set |-> TRUE, net |-> TRUE, nms |-> TRUE]

\* detection.class || 'Unknown'
ClassName(c) == IF c = "" THEN "Unknown" ELSE c

\* The keys a counts object can hold.  A counts object is written as a
\* function on all of them, 0 standing for an absent key: the code only ever
\* stores a key with a count of at least 1.
CountKeys == {ClassName(c) : c \in CountDetClasses}

EmptyCounts == [k \in CountKeys |-> 0]

\* Object.keys(counts)
Keys(counts) == {k \in CountKeys : counts[k] > 0}

\* lastAct of a handler `op` that settles no detectImage call.
Act(op) == [op |-> op, src |-> "none", path |-> "none", kind |-> "none", n |-> 0,
            frame |-> 0]

RECURSIVE SeqsUpTo(_, _)
SeqsUpTo(S, n) ==
  IF n = 0 THEN {<< >>}
  ELSE LET shorter == SeqsUpTo(S, n - 1)
       IN shorter \cup {Append(s, x) : s \in {t \in shorter : Len(t) = n - 1}, x \in S}

\* The arrays detectImage returns inside the running application: the empty
\* array and every array of one detection.  Longer arrays differ only in the
\* counts they give, which SpecCounts covers.
DetArrays == {<< >>} \cup {<<c>> : c \in DetClasses}

\* What detectImage can do: return an array of detections, return something
\* that is not an array, or throw.
DetectResults ==
  {[kind |-> "array", dets |-> d] : d \in DetArrays}
    \cup {[kind |-> "notArray", dets |-> << >>], [kind |-> "throw", dets |-> << >>]}

\* const counts = {}; detections.forEach(d => counts[name] = (counts[name] || 0) + 1)
RECURSIVE CountsOf_accumulating(_)
CountsOf_accumulating(dets) ==
  IF dets = << >> THEN detectionCounts
  ELSE LET rest == CountsOf_accumulating(SubSeq(dets, 1, Len(dets) - 1))
       IN [rest EXCEPT ![ClassName(dets[Len(dets)])] = @ + 1]

RECURSIVE CountsOf(_)
CountsOf(dets) ==
  IF dets = << >> THEN EmptyCounts
  ELSE LET rest == CountsOf(SubSeq(dets, 1, Len(dets) - 1))
       IN [rest EXCEPT ![ClassName(dets[Len(dets)])] = @ + 1]

RECURSIVE SumOver(_, _)
SumOver(f, D) ==
  IF D = {} THEN 0
  ELSE LET k == CHOOSE x \in D : TRUE IN f[k] + SumOver(f, D \ {k})

\* Object.values(detectionCounts).reduce((sum, count) => sum + count, 0)
getTotalDetections == SumOver(detectionCounts, Keys(detectionCounts))

\* The branch detectWithCounts takes on detectImage's outcome.
DetectWithCountsPath_emptyIsError(result) ==
  IF result.kind = "throw" \/ (result.kind = "array" /\ result.dets = << >>) THEN "caught"
  ELSE IF result.kind = "array" THEN "counted"
  ELSE "cleared"

DetectWithCountsPath(result) ==
  IF result.kind = "throw" THEN "caught"
  ELSE IF result.kind = "array" THEN "counted"
  ELSE "cleared"

\* The value detectWithCounts passes to setDetectionCounts.
CountsAfter(result) ==
  IF DetectWithCountsPath(result) = "counted" THEN CountsOf(result.dets) ELSE EmptyCounts

\* ----------------------------------------------------------------- Init
AppInit ==
  /\ initPc = "idle"
  /\ session = NoSession
  /\ cameraMode = FALSE
  /\ facingMode = "environment"
  /\ image = FALSE
  /\ isDetecting = FALSE
  /\ detectionCounts = EmptyCounts
  /\ detectionIntervalRef = 0
  /\ streamPending = FALSE
  /\ camReady = FALSE
  /\ pendingRaf = {}
  /\ nextHandle = 1
  /\ timers = << >>
  /\ executions = {}
  /\ nextFrame = 1
  /\ imgLoadPending = FALSE
  /\ lastAct = Act("init")
  /\ newestApplied = 0

\* No function is being applied on its own.
HarnessIdle == [pc |-> "idle"]

Init ==
  /\ AppInit
  /\ harness = HarnessIdle

\* ------------------------------------------------- cv.onRuntimeInitialized
\* The awaits of the handler, in order.
NextStage(stage) ==
  CASE stage = "downloadNet" -> "createNet"
    [] stage = "createNet" -> "downloadNms"
    [] stage = "downloadNms" -> "createNms"
    [] stage = "createNms" -> "warmup"
    [] stage = "warmup" -> "done"

\* The await after which setSession({net, nms}) runs.
SessionSetAfter_beforeWarmup(stage) == stage = "createNms"

SessionSetAfter(stage) == stage = "warmup"

RuntimeInitialized ==
  /\ initPc = "idle"
  /\ initPc' = "downloadNet"
  /\ lastAct' = Act("runtimeInitialized")
  /\ UNCHANGED <<harness, newestApplied, session, cameraMode, facingMode, image, isDetecting,
                 detectionCounts, detectionIntervalRef, streamPending, camReady,
                 pendingRaf, nextHandle, timers, executions, nextFrame,
                 imgLoadPending>>

LoadStep ==
  /\ initPc \in {"downloadNet", "createNet", "downloadNms", "createNms", "warmup"}
  /\ initPc' = NextStage(initPc)
  /\ session' = IF SessionSetAfter(initPc) THEN LoadedSession ELSE session
  /\ lastAct' = Act("loadStep")
  /\ UNCHANGED <<harness, newestApplied, cameraMode, facingMode, image, isDetecting,
                 detectionCounts, detectionIntervalRef, streamPending, camReady,
                 pendingRaf, nextHandle, timers, executions, nextFrame,
                 imgLoadPending>>

\* An await of the handler rejects: the rest of it, setSession included, never runs.
LoadFail ==
  /\ initPc \in {"downloadNet", "createNet", "downloadNms", "createNms", "warmup"}
  /\ initPc' = "failed"
  /\ lastAct' = Act("loadFail")
  /\ UNCHANGED <<harness, newestApplied, session, cameraMode, facingMode, image, isDetecting,
                 detectionCounts, detectionIntervalRef, streamPending, camReady,
                 pendingRaf, nextHandle, timers, executions, nextFrame,
                 imgLoadPending>>

\* ------------------------------------------------------------ camera mode
\* The "Start YOLO Application" button, disabled while session is null.
enableCameraMode ==
  /\ ~cameraMode
  /\ session.set
  /\ cameraMode' = TRUE
  /\ streamPending' = TRUE          \* the Webcam mounts and asks for a stream
  /\ camReady' = FALSE
  /\ lastAct' = Act("enableCameraMode")
  /\ UNCHANGED <<harness, newestApplied, initPc, session, facingMode, image, isDetecting, detectionCounts,
                 detectionIntervalRef, pendingRaf, nextHandle, timers, executions,
                 nextFrame, imgLoadPending>>

\* onUserMedia's test before it queues the delayed start:
\* if (session && !isDetecting)
StartAfterReady_whileDetecting == session.set /\ isDetecting

StartAfterReady == session.set /\ ~isDetecting

\* The Webcam's onUserMedia prop: the closure of the latest render, so the
\* session and isDetecting it reads, and the startDetection it queues, are
\* those of the state at the event.

onUserMedia ==
  /\ cameraMode
  /\ streamPending
  /\ streamPending' = FALSE
  /\ camReady' = TRUE
  /\ IF StartAfterReady
       THEN /\ Len(timers) < MaxTimers
            /\ timers' = Append(timers, [sess |-> session, det |-> isDetecting])
       ELSE timers' = timers
  /\ lastAct' = Act("onUserMedia")
  /\ UNCHANGED <<harness, newestApplied, initPc, session, cameraMode, facingMode, image, isDetecting,
                 detectionCounts, detectionIntervalRef, pendingRaf, nextHandle,
                 executions, nextFrame, imgLoadPending>>

\* ---------------------------------------------------------- detection loop
\* What webcamRef.current.getScreenshot() can do: a data URL, null (no frame
\* to draw yet), or an exception out of the capture.
Shots == IF camReady THEN {"image", "null", "throw"} ELSE {"null"}

\* processFrame, by the closure's session and the screenshot's outcome.
\* webcamRef.current is the mounted Webcam, null outside camera mode;
\* canvasRef.current is never null once mounted: both render trees hold a canvas.
processFrame(sess, shot) ==
  IF ~cameraMode \/ ~sess.set THEN "return"
  ELSE IF shot = "throw" THEN "throw"
  ELSE IF shot = "null" THEN "return"
  ELSE "dispatch"

\* The execution processFrame's img.onload will start, with the arguments
\* detectWithCounts passes on to detectImage.
NewExecution(src, stage, sess) ==
  [frame |-> nextFrame, src |-> src, stage |-> stage, sess |-> sess,
   topk |-> topk, iouThreshold |-> iouThreshold,
   scoreThreshold |-> scoreThreshold, modelInputShape |-> modelInputShape]

\* detectLoop: processFrame(), then detectionIntervalRef.current =
\* requestAnimationFrame(detectLoop).  An exception out of processFrame
\* leaves before the second statement.  `others` are the callbacks still
\* scheduled when it runs.
detectLoop(sess, shot, others) ==
  LET r == processFrame(sess, shot) IN
  /\ nextHandle <= MaxHandles
  /\ r = "dispatch" => nextFrame <= MaxFrames
  /\ executions' = IF r = "dispatch"
                     THEN executions \cup {NewExecution("loop", "loading", sess)}
                     ELSE executions
  /\ nextFrame' = IF r = "dispatch" THEN nextFrame + 1 ELSE nextFrame
  /\ pendingRaf' = IF r = "throw" THEN others
                   ELSE others \cup {[h |-> nextHandle, sess |-> sess]}
  /\ detectionIntervalRef' = IF r = "throw" THEN detectionIntervalRef ELSE nextHandle
  /\ nextHandle' = IF r = "throw" THEN nextHandle ELSE nextHandle + 1

\* startDetection, as the closure `c` the timer holds: if (isDetecting) return
\* reads the closure's isDetecting.
startDetection(c, shot) ==
  IF c.det
    THEN UNCHANGED <<isDetecting, executions, nextFrame, pendingRaf,
                     detectionIntervalRef, nextHandle>>
    ELSE /\ isDetecting' = TRUE
         /\ detectLoop(c.sess, shot, pendingRaf)

\* The 500 ms timer of onUserMedia fires.
StartTimerFires ==
  /\ timers # << >>
  /\ \E shot \in Shots :
       /\ startDetection(Head(timers), shot)
       /\ lastAct' = [Act("startDetection") EXCEPT
                        !.src = "loop", !.path = processFrame(Head(timers).sess, shot)]
  /\ timers' = Tail(timers)
  /\ UNCHANGED <<harness, newestApplied, initPc, session, cameraMode, facingMode, image,
                 detectionCounts, streamPending, camReady, imgLoadPending>>

\* A scheduled animation-frame callback runs.
AnimationFrame ==
  \E c \in pendingRaf, shot \in Shots :
    /\ detectLoop(c.sess, shot, pendingRaf \ {c})
    /\ lastAct' = [Act("detectLoop") EXCEPT
                     !.src = "loop", !.path = processFrame(c.sess, shot)]
    /\ UNCHANGED <<harness, newestApplied, initPc, session, cameraMode, facingMode, image,
                   isDetecting, detectionCounts, streamPending, camReady, timers,
                   imgLoadPending>>

\* stopDetection: cancelAnimationFrame cancels the one callback the ref names.
stopDetection_keepsHandle ==
  /\ pendingRaf' = IF detectionIntervalRef # 0
                     THEN {c \in pendingRaf : c.h # detectionIntervalRef}
                     ELSE pendingRaf
  /\ detectionIntervalRef' = detectionIntervalRef
  /\ isDetecting' = FALSE
  /\ detectionCounts' = EmptyCounts

stopDetection ==
  /\ pendingRaf' = IF detectionIntervalRef # 0
                     THEN {c \in pendingRaf : c.h # detectionIntervalRef}
                     ELSE pendingRaf
  /\ detectionIntervalRef' = 0
  /\ isDetecting' = FALSE
  /\ detectionCounts' = EmptyCounts

exitCameraMode ==
  /\ cameraMode
  /\ stopDetection
  /\ cameraMode' = FALSE
  /\ image' = FALSE
  /\ streamPending' = FALSE         \* the Webcam unmounts
  /\ camReady' = FALSE
  /\ lastAct' = Act("exitCameraMode")
  /\ UNCHANGED <<harness, newestApplied, initPc, session, facingMode, nextHandle, timers,
                 executions, nextFrame, imgLoadPending>>

flipCamera ==
  /\ cameraMode
  /\ stopDetection
  /\ facingMode' = IF facingMode = "user" THEN "environment" ELSE "user"
  /\ streamPending' = TRUE          \* new videoConstraints: a new stream request
  /\ camReady' = FALSE
  /\ lastAct' = Act("flipCamera")
  /\ UNCHANGED <<harness, newestApplied, initPc, session, cameraMode, image, nextHandle, timers,
                 executions, nextFrame, imgLoadPending>>

\* ------------------------------------------------------ pipeline executions
\* img.onload of processFrame: detectWithCounts is called and calls detectImage.
FrameImageLoaded ==
  \E e \in executions :
    /\ e.stage = "loading"
    /\ executions' = (executions \ {e}) \cup {[e EXCEPT !.stage = "running"]}
    /\ lastAct' = [Act("imgOnload") EXCEPT !.src = e.src]
    /\ UNCHANGED <<harness, newestApplied, initPc, session, cameraMode, facingMode, image,
                   isDetecting, detectionCounts, detectionIntervalRef,
                   streamPending, camReady, pendingRaf, nextHandle, timers,
                   nextFrame, imgLoadPending>>

\* The frame's image fails to load: processFrame sets no onerror, and onload
\* never runs.
FrameImageError ==
  \E e \in executions :
    /\ e.stage = "loading"
    /\ executions' = executions \ {e}
    /\ lastAct' = [Act("imgError") EXCEPT !.src = e.src]
    /\ UNCHANGED <<harness, newestApplied, initPc, session, cameraMode, facingMode, image,
                   isDetecting, detectionCounts, detectionIntervalRef,
                   streamPending, camReady, pendingRaf, nextHandle, timers,
                   nextFrame, imgLoadPending>>

\* detectWithCounts from the point where the awaited detectImage of execution
\* `e` settles with `result`, to its end.
detectWithCounts(e, result) ==
  /\ e.stage = "running"
  /\ executions' = executions \ {e}
  /\ detectionCounts' = CountsAfter(result)
  /\ lastAct' = [op |-> "detectWithCounts", src |-> e.src,
                 path |-> DetectWithCountsPath(result), kind |-> result.kind,
                 n |-> Len(result.dets), frame |-> e.frame]
  /\ newestApplied' = IF e.frame > newestApplied THEN e.frame ELSE newestApplied
  /\ UNCHANGED <<initPc, session, cameraMode, facingMode, image,
                 isDetecting, detectionIntervalRef, streamPending, camReady,
                 pendingRaf, nextHandle, timers, nextFrame, imgLoadPending>>

DetectImageSettles ==
  \E e \in executions, result \in DetectResults :
    /\ detectWithCounts(e, result)
    /\ UNCHANGED harness

\* ----------------------------------------------------------- uploaded image
\* "Open local image" (disabled while session is null) and the input's onChange.
openLocalImage ==
  /\ ~cameraMode
  /\ session.set
  /\ image' = TRUE
  /\ imgLoadPending' = TRUE         \* imageRef.current.src = url
  /\ lastAct' = Act("openLocalImage")
  /\ UNCHANGED <<harness, newestApplied, initPc, session, cameraMode, facingMode, isDetecting,
                 detectionCounts, detectionIntervalRef, streamPending, camReady,
                 pendingRaf, nextHandle, timers, executions, nextFrame>>

\* The <img>'s onLoad.
imageOnLoad ==
  /\ imgLoadPending
  /\ imgLoadPending' = FALSE
  /\ IF ~cameraMode /\ session.set
       THEN /\ nextFrame <= MaxFrames
            /\ executions' = executions \cup {NewExecution("upload", "running", session)}
            /\ nextFrame' = nextFrame + 1
       ELSE UNCHANGED <<executions, nextFrame>>
  /\ lastAct' = Act("imageOnLoad")
  /\ UNCHANGED <<harness, newestApplied, initPc, session, cameraMode, facingMode, image,
                 isDetecting, detectionCounts, detectionIntervalRef, streamPending,
                 camReady, pendingRaf, nextHandle, timers>>

\* "Close image", shown when image && !cameraMode.
closeImage ==
  /\ image
  /\ ~cameraMode
  /\ image' = FALSE
  /\ imgLoadPending' = FALSE        \* imageRef.current.src = "#"
  /\ detectionCounts' = EmptyCounts
  /\ lastAct' = Act("closeImage")
  /\ UNCHANGED <<harness, newestApplied, initPc, session, cameraMode, facingMode, isDetecting,
                 detectionIntervalRef, streamPending, camReady, pendingRaf,
                 nextHandle, timers, executions, nextFrame>>

\* ------------------------------------------------------------ specification
Next ==
  \/ RuntimeInitialized
  \/ LoadStep
  \/ LoadFail
  \/ enableCameraMode
  \/ onUserMedia
  \/ StartTimerFires
  \/ AnimationFrame
  \/ exitCameraMode
  \/ flipCamera
  \/ FrameImageLoaded
  \/ FrameImageError
  \/ DetectImageSettles
  \/ openLocalImage
  \/ imageOnLoad
  \/ closeImage

Spec == Init /\ [][Next]_vars

\* ------------------------------------------- detectWithCounts on its own
\* The loop with two frames dispatched and their images loaded: two
\* detectImage calls are pending.
CountsInit ==
  /\ initPc = "done"
  /\ session = LoadedSession
  /\ cameraMode = TRUE
  /\ facingMode = "environment"
  /\ image = FALSE
  /\ isDetecting = TRUE
  /\ detectionCounts = EmptyCounts
  /\ detectionIntervalRef = 2
  /\ streamPending = FALSE
  /\ camReady = TRUE
  /\ pendingRaf = {[h |-> 2, sess |-> LoadedSession]}
  /\ nextHandle = 3
  /\ timers = << >>
  /\ executions = {[frame |-> f, src |-> "loop", stage |-> "running",
                    sess |-> LoadedSession, topk |-> topk,
                    iouThreshold |-> iouThreshold,
                    scoreThreshold |-> scoreThreshold,
                    modelInputShape |-> modelInputShape] : f \in {1, 2}}
  /\ nextFrame = 3
  /\ imgLoadPending = FALSE
  /\ lastAct = [Act("imgOnload") EXCEPT !.src = "loop"]
  /\ newestApplied = 0
  /\ harness = HarnessIdle

\* What detectImage can do, with arrays of up to MaxCountDets detections.
CountResults ==
  {[kind |-> "array", dets |-> d] : d \in SeqsUpTo(CountDetClasses, MaxCountDets)}
    \cup {[kind |-> "notArray", dets |-> << >>], [kind |-> "throw", dets |-> << >>]}

\* One pending detectImage call settles; the harness keeps its result and the
\* counts the run found.
CountsRun ==
  \E e \in executions, result \in CountResults :
    /\ detectWithCounts(e, result)
    /\ harness' = [pc |-> "ran", result |-> result, before |-> detectionCounts]

SpecCounts == CountsInit /\ [][CountsRun]_vars

\* ----------------------------------------------- stopDetection on its own
\* stopDetection called with nothing around it, as the cleanup of the mount
\* effect calls it, at any point of a run and then once more.  The harness
\* keeps whether the first call found a callback under the handle.
stopDetectionAlone ==
  /\ harness.pc \in {"idle", "stopped"}
  /\ stopDetection
  /\ lastAct' = Act("stopDetection")
  /\ harness' = IF harness.pc = "idle"
                  THEN [pc |-> "stopped",
                        hadTick |-> \E c \in pendingRaf : c.h = detectionIntervalRef]
                  ELSE [harness EXCEPT !.pc = "stoppedAgain"]
  /\ UNCHANGED <<newestApplied, initPc, session, cameraMode, facingMode, image,
                 streamPending, camReady, nextHandle, timers, executions,
                 nextFrame, imgLoadPending>>

\* The application runs until stopDetection is called on its own.
StopNext ==
  \/ harness.pc = "idle" /\ Next
  \/ stopDetectionAlone

SpecStop == Init /\ [][StopNext]_vars

\* ----------------------------------------------------- letterbox transform
\* The Letterbox Preprocessor of the detection pipeline, applied on its own
\* to an image of W x H pixels and a square target of T pixels.
ImageDims == {320, 640, 720, 1080, 1280, 1920}
TargetSizes == {320, 640}

\* scale = min(targetSize / W, targetSize / H), as the fraction num / den.
LetterboxScale_max(W, H, T) ==
  IF T * H >= T * W THEN [num |-> T, den |-> W] ELSE [num |-> T, den |-> H]

LetterboxScale(W, H, T) ==
  IF T * H <= T * W THEN [num |-> T, den |-> W] ELSE [num |-> T, den |-> H]

\* A side of d pixels resized by the scale, in whole pixels.
Resized(d, scale) == (d * scale.num) \div scale.den

\* prepare(image, targetSize): the resized image is centred on the canvas,
\* pad = (targetSize - resized side) / 2 on each axis.  padX2 and padY2 are
\* twice the pads, which keeps a half pixel an integer.
prepare(W, H, T) ==
  LET scale == LetterboxScale(W, H, T) IN
  [scale |-> scale,
   padX2 |-> T - Resized(W, scale),
   padY2 |-> T - Resized(H, scale),
   srcWidth |-> W, srcHeight |-> H]

LetterboxInit ==
  /\ AppInit
  /\ harness \in {[pc |-> "image", W |-> W, H |-> H, T |-> T] :
                    W \in ImageDims, H \in ImageDims, T \in TargetSizes}

Prepare ==
  /\ harness.pc = "image"
  /\ harness' = [pc |-> "prepared", W |-> harness.W, H |-> harness.H, T |-> harness.T,
                 transform |-> prepare(harness.W, harness.H, harness.T)]
  /\ UNCHANGED appVars

SpecLetterbox == LetterboxInit /\ [][Prepare]_vars

\* ------------------------------------------------------------------ views
\* The loop's executions: those processFrame dispatched.
LoopExecutions == {e \in executions : e.src = "loop"}

\* What the render shows of a counts object: "Detections: N", the per-class
\* lines, and "No objects detected" when it has no keys.
ConsumerView(counts) ==
  [total |-> SumOver(counts, Keys(counts)),
   lines |-> {<<k, counts[k]>> : k \in Keys(counts)},
   noObjects |-> Keys(counts) = {}]

\* The last step was the end of a detectWithCounts call.
RunEnded == lastAct.op = "detectWithCounts"

\* The last step was a frame of the loop failing: the capture threw, the
\* frame's image did not load, or detectImage threw.
FrameFailed ==
  /\ lastAct.src = "loop"
  /\ \/ lastAct.path = "throw"
     \/ lastAct.op = "imgError"
     \/ RunEnded /\ lastAct.path = "caught"

\* ----------------------------------------------------------------- claims
\* C1: while the loop runs, at most one pipeline execution of the loop is in
\* flight at any time.
C1_AtMostOneInFlight == Cardinality(LoopExecutions) <= 1

\* C2: a pipeline execution of the loop that completes when the loop is no
\* longer Running leaves the detection counts empty, as stopDetection left them.
C2_ResultDiscardedAfterStop ==
  (RunEnded /\ lastAct.src = "loop" /\ ~isDetecting) => detectionCounts = EmptyCounts

\* C3: start() while Running schedules no second chain of ticks: at most one
\* animation-frame callback of the loop is ever pending.
C3_SingleTickChain == Cardinality(pendingRaf) <= 1

\* C4: once stopDetection has run and until startDetection runs again (the
\* states where isDetecting is false), no tick of the loop is pending.
C4_StopCancelsEveryTick == ~isDetecting => pendingRaf = {}

\* C5: right after a failed frame, if stop() has not been called since the
\* loop started, a next tick is still scheduled.
C5_FailedFrameKeepsLoop == (FrameFailed /\ isDetecting) => pendingRaf # {}

\* C6: after a pipeline run that failed, what the consumer sees differs from
\* what it sees after a run that succeeded with zero detections.
C6_FailureDistinguishable ==
  (RunEnded /\ lastAct.path = "caught")
    => ConsumerView(detectionCounts)
         # ConsumerView(CountsAfter([kind |-> "array", dets |-> << >>]))

\* C7: every pipeline execution in flight, from the loop or from an uploaded
\* image, holds a session with both the detector and the NMS handle, and
\* exists only once cv.onRuntimeInitialized has run past the warm-up.
C7_PipelineOnlyWhenLoaded ==
  \A e \in executions : e.sess.set /\ e.sess.net /\ e.sess.nms /\ initPc = "done"

C7_Witness ==
  \E e1, e2 \in executions :
    /\ e1.src = "loop" /\ e1.stage = "running"
    /\ e2.src = "upload" /\ e2.stage = "running"

\* C8: while the loop is Running a next tick is pending, whatever the
\* pipeline executions in flight are doing.
C8_RunningHasTickPending == isDetecting => pendingRaf # {}

\* C9: a run whose detectImage returned an empty array leaves the per-class
\* counts empty and the total 0, and did not take the catch branch.
C9_ZeroDetectionsNotError ==
  (RunEnded /\ lastAct.kind = "array" /\ lastAct.n = 0)
    => /\ Keys(detectionCounts) = {}
       /\ getTotalDetections = 0
       /\ lastAct.path = "counted"

C9_Witness ==
  /\ RunEnded /\ lastAct.kind = "array" /\ lastAct.n = 0
  /\ lastAct.src = "loop"
  /\ isDetecting

\* C10: every pipeline invocation carries the documented default parameters.
C10_DocumentedDefaults ==
  \A e \in executions :
    /\ e.topk = README_topk
    /\ e.iouThreshold = README_iouThreshold
    /\ e.scoreThreshold = README_scoreThreshold
    /\ e.modelInputShape = README_modelInputShape

\* C11: for a 1280 x 720 image and a 640 target the letterbox transform is
\* scale = 0.5, padX = 0, padY = 140 (the 360 resized rows centred in 640).
Is1280x720 ==
  harness.pc = "prepared" /\ harness.W = 1280 /\ harness.H = 720 /\ harness.T = 640

C11_Letterbox1280x720 ==
  Is1280x720 =>
    /\ 2 * harness.transform.scale.num = harness.transform.scale.den
    /\ harness.transform.padX2 = 0
    /\ harness.transform.padY2 = 2 * 140

\* C11 as stated: scale = 0.5, padX = 0, padY = 80.
C11_AsStated ==
  Is1280x720 =>
    /\ 2 * harness.transform.scale.num = harness.transform.scale.den
    /\ harness.transform.padX2 = 0
    /\ harness.transform.padY2 = 2 * 80

C11_Witness == Is1280x720

\* C12: the loop is Running (isDetecting) exactly when a tick is pending and
\* detectionIntervalRef is non-null and names a pending tick.
C12_RunningIffTickPending ==
  isDetecting <=>
    /\ pendingRaf # {}
    /\ detectionIntervalRef # 0
    /\ \E c \in pendingRaf : c.h = detectionIntervalRef

\* C13: outside camera mode the loop is not Running and no tick is pending.
C13_LoopOnlyInCameraMode == ~cameraMode => (~isDetecting /\ pendingRaf = {})

\* C14: whenever a completed run of the loop sets the counts, its frame is no
\* older than the frame of any run that set them before.
C14_ResultsInFrameOrder ==
  (RunEnded /\ lastAct.src = "loop") => lastAct.frame = newestApplied

\* C15: a webcam-ready event that finds the models loaded and the loop not
\* Running queues the delayed start, and the delayed start, when it runs,
\* leaves the loop Running.
C15_ReadyStartsLoop ==
  /\ (lastAct.op = "onUserMedia" /\ session.set /\ ~isDetecting) => timers # << >>
  /\ lastAct.op = "startDetection" => isDetecting

\* The loop was started, flipCamera stopped it (its tick, handle 1, is
\* cancelled), and the start queued by the new camera's ready event has run.
C15_Witness ==
  /\ lastAct.op = "startDetection"
  /\ isDetecting
  /\ facingMode = "user"
  /\ detectionIntervalRef = 2
  /\ {c.h : c \in pendingRaf} = {2}

\* C16: after a run that returned a list of detections, detectionCounts maps
\* each class name to the number of detections of the list with that class
\* (a detection without a class counts under 'Unknown'), whatever the counts
\* were before, and getTotalDetections is the length of the list.
NumberWithClass(dets, c) == Cardinality({i \in 1..Len(dets) : dets[i] = c})

C16_CountsRebuiltFromList ==
  (harness.pc = "ran" /\ harness.result.kind = "array") =>
    /\ \A c \in CountDetClasses \ {""} :
         detectionCounts[c] = NumberWithClass(harness.result.dets, c)
    /\ detectionCounts["Unknown"] = NumberWithClass(harness.result.dets, "")
    /\ getTotalDetections = Len(harness.result.dets)

C16_Witness ==
  /\ harness.pc = "ran"
  /\ harness.result.kind = "array"
  /\ harness.before # EmptyCounts
  /\ NumberWithClass(harness.result.dets, "Oyster") = 2
  /\ NumberWithClass(harness.result.dets, "") = 1

\* A step in which stopDetection was called on its own.
StopCalled == harness' # harness /\ harness'.pc \in {"stopped", "stoppedAgain"}

\* The loop is Idle: not detecting and no handle held.
LoopIdle == ~isDetecting /\ detectionIntervalRef = 0

\* C17: stopDetection changes only the loop state: it cancels the callback
\* the handle names, sets the handle to null, isDetecting to false and
\* detectionCounts to empty, and leaves the session, cameraMode, facingMode,
\* the selected image and everything else as they were; called when the loop
\* is already Idle it changes nothing but the counts.
C17_StopChangesOnlyLoopState ==
  [][StopCalled =>
       /\ pendingRaf' = {c \in pendingRaf : c.h # detectionIntervalRef}
       /\ detectionIntervalRef' = 0
       /\ isDetecting' = FALSE
       /\ detectionCounts' = EmptyCounts
       /\ session' = session /\ cameraMode' = cameraMode
       /\ facingMode' = facingMode /\ image' = image
       /\ UNCHANGED <<initPc, streamPending, camReady, nextHandle, timers,
                      executions, nextFrame, imgLoadPending, newestApplied>>
       /\ LoopIdle => UNCHANGED <<pendingRaf, detectionIntervalRef, isDetecting>>]_vars

\* stopDetection ran twice in camera mode after a flip, with the model
\* loaded; the first call cancelled a pending callback.
C17_Witness ==
  /\ harness.pc = "stoppedAgain"
  /\ harness.hadTick
  /\ session.set /\ cameraMode /\ facingMode = "user"
  /\ LoopIdle /\ detectionCounts = EmptyCounts

====
